---------------------------- MODULE Spec2Model ----------------------------
(***************************************************************************)
(* A model of pedmiston/tictactoe: the Board (src/tictactoe/board.py),     *)
(* the pattern catalog (src/tictactoe/patterns.py), the computer players   *)
(* (src/tictactoe/players.py) and the play loop of the curses driver       *)
(* (src/tictactoe/screens.py, src/tictactoe/app.py).                       *)
(*                                                                         *)
(* Python values are modelled as follows.                                  *)
(*   - a cell of Board.b is a string: "0".."8" while open, a token after.  *)
(*   - a key handed to Board.__getitem__/__setitem__ is either a Python    *)
(*     int or a Python str; it is the record [t, n, s] with t = "int" and  *)
(*     the integer n, or t = "str" and the sequence s of its characters.   *)
(*   - a Move is the record [space, token]; space is the key as given.     *)
(*   - a call's outcome is a record with the field err naming the raised   *)
(*     exception ("none" when the call returns).                           *)
(*   - Computer.prng.choice(list) is a nondeterministic choice among the   *)
(*     elements of the list (IndexError on the empty list); an outcome     *)
(*     also names the list drawn from (<<>> when no draw was made).  Where *)
(*     the seed matters the generator is modelled too: its output is a     *)
(*     function of how it was seeded and of the draws made from it.        *)
(***************************************************************************)
EXTENDS Integers, Sequences, FiniteSets, TLC

VARIABLES
    b,              \* Board.b: the nine cells, [0..8 -> STRING]
    tokens,         \* Board.tokens: <<token of player 1, token of player 2>>
    moves,          \* Board.moves: sequence of Move records
    player1,        \* PlayScreen.player1: [kind, token]
    player2,        \* PlayScreen.player2: [kind, token]
    pc,             \* where the driver is: "idle", "p1", "p2", "done"
    result,         \* what the driver reported: "none", "tie", "p1 wins", ...
    last,           \* the last call made and its outcome
    calls,          \* the number of direct calls made on the board
    prng,           \* Computer.prng of each Computer instance under test
    twister         \* what the generators have produced so far

vars ==
    <<b, tokens, moves, player1, player2, pc, result, last, calls, prng,
      twister>>

----------------------------------------------------------------------------
(* Python values                                                           *)

Spaces == 0..8

DigitChars == <<"0", "1", "2", "3", "4", "5", "6", "7", "8", "9">>

IsDigit(c) == \E i \in 1..Len(DigitChars) : DigitChars[i] = c

DigitVal(c) == CHOOSE d \in 0..9 : DigitChars[d + 1] = c

\* str(n) for a space number n in 0..9
PyStr(n) == DigitChars[n + 1]

IntKey(n) == [t |-> "int", n |-> n, s |-> <<>>]

StrKey(s) == [t |-> "str", n |-> 0, s |-> s]

RECURSIVE DigitsValue(_)
DigitsValue(s) ==
    IF Len(s) = 0 THEN 0
    ELSE 10 * DigitsValue(SubSeq(s, 1, Len(s) - 1)) + DigitVal(s[Len(s)])

\* int(key): an int is itself; a str is an optional sign followed by one or
\* more decimal digits, anything else raises ValueError (ok = FALSE).
PyInt(key) ==
    IF key.t = "int" THEN [ok |-> TRUE, n |-> key.n]
    ELSE LET s      == key.s
             signed == Len(s) > 0 /\ s[1] \in {"-", "+"}
             body   == IF signed THEN Tail(s) ELSE s
             digits == Len(body) > 0 /\ \A i \in 1..Len(body) : IsDigit(body[i])
         IN  IF ~digits THEN [ok |-> FALSE, n |-> 0]
             ELSE IF signed /\ s[1] = "-"
                  THEN [ok |-> TRUE, n |-> 0 - DigitsValue(body)]
                  ELSE [ok |-> TRUE, n |-> DigitsValue(body)]

\* list indexing of the nine-element list Board.b: a negative index counts
\* from the end, an index outside -9..8 raises IndexError (ok = FALSE).
ListIndex(i) ==
    IF i >= 0 /\ i <= 8 THEN [ok |-> TRUE, n |-> i]
    ELSE IF i < 0 /\ i >= 0 - 9 THEN [ok |-> TRUE, n |-> i + 9]
    ELSE [ok |-> FALSE, n |-> 0]

\* item in list, for a Move's space and a list of ints: a str never equals
\* an int.
KeyInList(key, list) ==
    key.t = "int" /\ \E i \in 1..Len(list) : list[i] = key.n

SeqToSet(s) == {s[i] : i \in 1..Len(s)}

\* string.ascii_uppercase and string.ascii_lowercase, character by character
ascii_uppercase ==
    <<"A", "B", "C", "D", "E", "F", "G", "H", "I", "J", "K", "L", "M",
      "N", "O", "P", "Q", "R", "S", "T", "U", "V", "W", "X", "Y", "Z">>

ascii_lowercase ==
    <<"a", "b", "c", "d", "e", "f", "g", "h", "i", "j", "k", "l", "m",
      "n", "o", "p", "q", "r", "s", "t", "u", "v", "w", "x", "y", "z">>

\* str.upper(), for a str given as the sequence of its characters
PyUpper(s) ==
    [i \in 1..Len(s) |->
        IF \E k \in 1..Len(ascii_lowercase) : ascii_lowercase[k] = s[i]
        THEN ascii_uppercase[CHOOSE k \in 1..Len(ascii_lowercase) :
                                ascii_lowercase[k] = s[i]]
        ELSE s[i]]

\* s in t, for two strs: s occurs in t as a substring
PyStrIn(s, t) ==
    \E k \in 0..(Len(t) - Len(s)) : SubSeq(t, k + 1, k + Len(s)) = s

\* the str whose characters are s
RECURSIVE Join(_)
Join(s) == IF Len(s) = 0 THEN "" ELSE s[1] \o Join(Tail(s))

MinOf(S) == CHOOSE x \in S : \A y \in S : x <= y

MaxOf(S) == CHOOSE x \in S : \A y \in S : x >= y

\* [x for x in list if P(x)]
RECURSIVE Filter(_, _)
Filter(list, keep) ==
    IF Len(list) = 0 THEN <<>>
    ELSE IF Head(list) \in keep
         THEN <<Head(list)>> \o Filter(Tail(list), keep)
         ELSE Filter(Tail(list), keep)

----------------------------------------------------------------------------
(* The pattern catalog: src/tictactoe/patterns.py                          *)

winning_patterns ==
    << <<0, 1, 2>>, <<3, 4, 5>>, <<6, 7, 8>>,
       <<0, 3, 6>>, <<1, 4, 7>>, <<2, 5, 8>>,
       <<0, 4, 8>>, <<2, 4, 6>> >>

corners == <<0, 2, 6, 8>>

middles == <<1, 3, 5, 7>>

\* dict[key] = val: an existing key keeps its place and takes the new value,
\* a new key is appended (a dict iterates in insertion order).
DictSet(d, k, v) ==
    IF \E i \in 1..Len(d) : d[i].key = k
    THEN [i \in 1..Len(d) |->
            IF d[i].key = k THEN [key |-> k, val |-> v] ELSE d[i]]
    ELSE Append(d, [key |-> k, val |-> v])

RECURSIVE PartialPatternsUpTo(_, _)
PartialPatternsUpTo(wp, n) ==
    IF n = 0 THEN <<>>
    ELSE LET d  == PartialPatternsUpTo(wp, n - 1)
             s1 == wp[n][1]
             s2 == wp[n][2]
             s3 == wp[n][3]
             d1 == DictSet(d, {s1, s2}, s3)
             d2 == DictSet(d1, {s1, s3}, s2)
         IN  DictSet(d2, {s2, s3}, s1)

\* A variant of make_partial_patterns that leaves the last triple out
make_partial_patterns_without_last(wp) == PartialPatternsUpTo(wp, Len(wp) - 1)

make_partial_patterns(wp) == PartialPatternsUpTo(wp, Len(wp))

RECURSIVE PatternsWithout(_, _)
PatternsWithout(wp, s) ==
    IF Len(wp) = 0 THEN <<>>
    ELSE IF s \in SeqToSet(Head(wp))
         THEN PatternsWithout(Tail(wp), s)
         ELSE <<Head(wp)>> \o PatternsWithout(Tail(wp), s)

\* A variant of make_outer_patterns that drops the triples of space 0
make_outer_patterns_without_corner(wp) == PatternsWithout(wp, 0)

make_outer_patterns(wp) == PatternsWithout(wp, 4)

RECURSIVE make_diagonal_patterns(_, _)
make_diagonal_patterns(wp, cs) ==
    IF Len(wp) = 0 THEN <<>>
    ELSE LET p == Head(wp)
         IN  IF p[2] = 4 /\ p[1] \in SeqToSet(cs) /\ p[3] \in SeqToSet(cs)
             THEN <<p>> \o make_diagonal_patterns(Tail(wp), cs)
             ELSE make_diagonal_patterns(Tail(wp), cs)

partial_patterns == make_partial_patterns(winning_patterns)

outer_patterns == make_outer_patterns(winning_patterns)

diagonal_patterns == make_diagonal_patterns(winning_patterns, corners)

----------------------------------------------------------------------------
(* The Board: src/tictactoe/board.py.  A board value is the record         *)
(* [b, tokens, moves].                                                     *)

NewCells == [s \in Spaces |-> PyStr(s)]

\* Board.__init__(tokens)
NewBoard(toks) == [b |-> NewCells, tokens |-> toks, moves |-> <<>>]

\* Board(tokens=tokens): an empty or missing list gives the default tokens
Board_init(toks) ==
    IF Len(toks) = 0 THEN NewBoard(<<"X", "O">>) ELSE NewBoard(toks)

TokenSet(board) == SeqToSet(board.tokens)

\* Board.__getitem__(key)
Board_getitem(board, key) ==
    LET i == PyInt(key)
        j == ListIndex(i.n)
    IN  IF ~i.ok \/ ~j.ok
        THEN [err |-> "KeyNotOnBoardError", val |-> ""]
        ELSE [err |-> "none", val |-> board.b[j.n]]

\* Variants of Board.__setitem__ with a plausible slip each; the properties
\* of placing a token are checked to tell the code from them.
\* (1) the test for the opponent's token is missing: the cell is overwritten
Board_setitem_overwrites(board, key, token) ==
    LET prev == Board_getitem(board, key)
    IN  IF prev.err # "none"
        THEN [err |-> prev.err, board |-> board]
        ELSE IF prev.val = token
        THEN [err |-> "SpotAlreadySelectedError", board |-> board]
        ELSE [err |-> "none",
              board |->
                [b      |-> [board.b EXCEPT ![ListIndex(PyInt(key).n).n] = token],
                 tokens |-> board.tokens,
                 moves  |-> Append(board.moves,
                                   [space |-> key, token |-> token])]]

\* (2) the Move is recorded before the cell is examined
Board_setitem_records_first(board, key, token) ==
    LET prev == Board_getitem(board, key)
        rec  == [board EXCEPT
                   !.moves = Append(board.moves, [space |-> key, token |-> token])]
    IN  IF prev.err # "none"
        THEN [err |-> prev.err, board |-> board]
        ELSE IF prev.val = token
        THEN [err |-> "SpotAlreadySelectedError", board |-> rec]
        ELSE IF prev.val \in TokenSet(board)
        THEN [err |-> "SpotTakenByOpponentError", board |-> rec]
        ELSE [err |-> "none",
              board |->
                [rec EXCEPT !.b[ListIndex(PyInt(key).n).n] = token]]

\* (3) the Move is put at the front of the history
Board_setitem_prepends(board, key, token) ==
    LET prev == Board_getitem(board, key)
    IN  IF prev.err # "none"
        THEN [err |-> prev.err, board |-> board]
        ELSE IF prev.val = token
        THEN [err |-> "SpotAlreadySelectedError", board |-> board]
        ELSE IF prev.val \in TokenSet(board)
        THEN [err |-> "SpotTakenByOpponentError", board |-> board]
        ELSE [err |-> "none",
              board |->
                [b      |-> [board.b EXCEPT ![ListIndex(PyInt(key).n).n] = token],
                 tokens |-> board.tokens,
                 moves  |-> <<[space |-> key, token |-> token]>> \o board.moves]]

\* Board.__setitem__(key, token): the outcome and the board after the call
Board_setitem(board, key, token) ==
    LET prev == Board_getitem(board, key)
    IN  IF prev.err # "none"
        THEN [err |-> prev.err, board |-> board]
        ELSE IF prev.val = token
        THEN [err |-> "SpotAlreadySelectedError", board |-> board]
        ELSE IF prev.val \in TokenSet(board)
        THEN [err |-> "SpotTakenByOpponentError", board |-> board]
        ELSE [err |-> "none",
              board |->
                [b      |-> [board.b EXCEPT ![ListIndex(PyInt(key).n).n] = token],
                 tokens |-> board.tokens,
                 moves  |-> Append(board.moves,
                                   [space |-> key, token |-> token])]]

\* A variant of Board.find_winning_pattern() that returns the last match
Board_find_winning_pattern_last_match(board) ==
    LET hits == {i \in 1..Len(winning_patterns) :
                    /\ board.b[winning_patterns[i][1]] = board.b[winning_patterns[i][2]]
                    /\ board.b[winning_patterns[i][2]] = board.b[winning_patterns[i][3]]}
    IN  IF hits = {} THEN <<0 - 1, 0 - 1, 0 - 1>>
        ELSE winning_patterns[MaxOf(hits)]

\* A variant of Board.find_winning_pattern() that compares two cells only
Board_find_winning_pattern_two_cells(board) ==
    LET hits == {i \in 1..Len(winning_patterns) :
                    board.b[winning_patterns[i][1]] = board.b[winning_patterns[i][2]]}
    IN  IF hits = {} THEN <<0 - 1, 0 - 1, 0 - 1>>
        ELSE winning_patterns[MinOf(hits)]

\* board.find_winning_pattern(): the first triple of the catalog whose three
\* cells are equal, or (-1, -1, -1)
Board_find_winning_pattern(board) ==
    LET hits == {i \in 1..Len(winning_patterns) :
                    /\ board.b[winning_patterns[i][1]] = board.b[winning_patterns[i][2]]
                    /\ board.b[winning_patterns[i][2]] = board.b[winning_patterns[i][3]]}
    IN  IF hits = {} THEN <<0 - 1, 0 - 1, 0 - 1>>
        ELSE winning_patterns[MinOf(hits)]

\* A variant of Board.is_over() that forgets the last pattern of the catalog
is_over_without_last(board) ==
    \E i \in 1..(Len(winning_patterns) - 1) :
        LET p  == winning_patterns[i]
            c1 == Board_getitem(board, IntKey(p[1])).val
            c2 == Board_getitem(board, IntKey(p[2])).val
            c3 == Board_getitem(board, IntKey(p[3])).val
        IN  c1 = c2 /\ c2 = c3

\* Board.is_over()
is_over(board) ==
    \E i \in 1..Len(winning_patterns) :
        LET p  == winning_patterns[i]
            c1 == Board_getitem(board, IntKey(p[1])).val
            c2 == Board_getitem(board, IntKey(p[2])).val
            c3 == Board_getitem(board, IntKey(p[3])).val
        IN  c1 = c2 /\ c2 = c3

\* A variant of Board.is_tie() that is false on a won board
is_tie_unless_over(board) ==
    /\ \A s \in Spaces : board.b[s] \in TokenSet(board)
    /\ ~is_over(board)

\* Board.is_tie()
is_tie(board) == \A s \in Spaces : board.b[s] \in TokenSet(board)

\* A variant of Board.find_winning_move that returns the last match
Board_find_winning_move_last_match(board, token) ==
    LET pp   == partial_patterns
        hits == {i \in 1..Len(pp) :
                    /\ board.b[MinOf(pp[i].key)] = token
                    /\ board.b[MaxOf(pp[i].key)] = token
                    /\ board.b[pp[i].val] \notin TokenSet(board)}
    IN  IF hits = {} THEN 0 - 1 ELSE pp[MaxOf(hits)].val

\* A variant of Board.find_winning_move that does not look at the third cell
Board_find_winning_move_any_third(board, token) ==
    LET pp   == partial_patterns
        hits == {i \in 1..Len(pp) :
                    /\ board.b[MinOf(pp[i].key)] = token
                    /\ board.b[MaxOf(pp[i].key)] = token}
    IN  IF hits = {} THEN 0 - 1 ELSE pp[MinOf(hits)].val

\* Board.find_winning_move(token): the first entry of partial_patterns, in
\* the dict's order, whose pair holds the token and whose third cell is open.
\* (Board.partial_patterns is built as patterns.partial_patterns is, from the
\* same triples.)
Board_find_winning_move(board, token) ==
    LET pp   == partial_patterns
        hits == {i \in 1..Len(pp) :
                    /\ board.b[MinOf(pp[i].key)] = token
                    /\ board.b[MaxOf(pp[i].key)] = token
                    /\ board.b[pp[i].val] \notin TokenSet(board)}
    IN  IF hits = {} THEN 0 - 1 ELSE pp[MinOf(hits)].val

\* A variant of Board.find_blocking_move that looks for the token's own move
Board_find_blocking_move_own(board, token) ==
    Board_find_winning_move(board, token)

\* Board.find_blocking_move(token), for a one-letter token of the board
Board_find_blocking_move(board, token) ==
    Board_find_winning_move(board,
                            CHOOSE t \in TokenSet(board) \ {token} : TRUE)

\* Board.find_adjacent_corner(token)
RECURSIVE BoardAdjacentCornerFrom(_, _, _)
BoardAdjacentCornerFrom(board, token, i) ==
    IF i > Len(outer_patterns) THEN 0 - 1
    ELSE LET p == outer_patterns[i]
         IN  IF board.b[p[1]] = token /\ board.b[p[2]] = PyStr(p[2])
             THEN p[3]
             ELSE IF board.b[p[3]] = token /\ board.b[p[2]] = PyStr(p[2])
             THEN p[1]
             ELSE BoardAdjacentCornerFrom(board, token, i + 1)

Board_find_adjacent_corner(board, token) ==
    BoardAdjacentCornerFrom(board, token, 1)

\* Board.find_opposite_corner(token)
RECURSIVE BoardOppositeCornerFrom(_, _, _)
BoardOppositeCornerFrom(board, token, i) ==
    IF i > Len(diagonal_patterns) THEN 0 - 1
    ELSE LET p == diagonal_patterns[i]
         IN  IF board.b[p[1]] = token THEN p[3]
             ELSE IF board.b[p[3]] = token THEN p[1]
             ELSE BoardOppositeCornerFrom(board, token, i + 1)

Board_find_opposite_corner(board, token) ==
    BoardOppositeCornerFrom(board, token, 1)

OpenSpaces(board) == {s \in Spaces : board.b[s] \notin TokenSet(board)}

\* Board.available(): the open cells' own strings, converted by int()
RECURSIVE AvailableFrom(_, _)
AvailableFrom(board, s) ==
    IF s > 8 THEN <<>>
    ELSE IF board.b[s] \notin TokenSet(board)
         THEN <<PyInt(StrKey(<<board.b[s]>>)).n>> \o AvailableFrom(board, s + 1)
         ELSE AvailableFrom(board, s + 1)

\* A variant of Board.available() that lists every space, open or not
available_every_space(board) == <<0, 1, 2, 3, 4, 5, 6, 7, 8>>

available(board) == AvailableFrom(board, 0)

\* A variant of Board.available_corners() that lists every corner
available_corners_every(board) == corners

\* Board.available_corners()
available_corners(board) == Filter(corners, OpenSpaces(board))

\* Board.available_middles()
available_middles(board) == Filter(middles, OpenSpaces(board))

----------------------------------------------------------------------------
(* The players: src/tictactoe/players.py.  A strategy's outcome is a       *)
(* record [err, ret, list]; a strategy that draws from its prng has a set  *)
(* of possible outcomes, one per resolution of the draw, and list is the   *)
(* list it drew from.                                                      *)

Return(x) == {[err |-> "none", ret |-> x, list |-> <<>>]}

\* random.Random.choice(list)
Choice(list) ==
    IF Len(list) = 0 THEN {[err |-> "IndexError", ret |-> 0 - 1, list |-> <<>>]}
    ELSE {[err |-> "none", ret |-> list[i], list |-> list] : i \in 1..Len(list)}

Cell(board, s) == Board_getitem(board, IntKey(s)).val

\* Computer.find_winning_move(board, token)
Computer_find_winning_move(board, token) ==
    LET pp   == partial_patterns
        hits == {i \in 1..Len(pp) :
                    /\ Cell(board, MinOf(pp[i].key)) = token
                    /\ Cell(board, MaxOf(pp[i].key)) = token
                    /\ Cell(board, pp[i].val) \notin TokenSet(board)}
    IN  IF hits = {} THEN 0 - 1 ELSE pp[MinOf(hits)].val

\* (set(board.tokens) - set(self.token)).pop(), for a one-letter token
OpponentToken(board, token) ==
    CHOOSE t \in TokenSet(board) \ {token} : TRUE

\* A variant of Computer.find_blocking_move that never finds a block
Computer_find_blocking_move_never(board, token) == 0 - 1

\* Computer.find_blocking_move(board)
Computer_find_blocking_move(board, token) ==
    Computer_find_winning_move(board, OpponentToken(board, token))

\* Computer.find_adjacent_corner(board)
RECURSIVE AdjacentCornerFrom(_, _, _)
AdjacentCornerFrom(board, token, i) ==
    IF i > Len(outer_patterns) THEN 0 - 1
    ELSE LET p == outer_patterns[i]
         IN  IF Cell(board, p[1]) = token /\ Cell(board, p[2]) = PyStr(p[2])
             THEN p[3]
             ELSE IF Cell(board, p[3]) = token /\ Cell(board, p[2]) = PyStr(p[2])
             THEN p[1]
             ELSE AdjacentCornerFrom(board, token, i + 1)

Computer_find_adjacent_corner(board, token) ==
    AdjacentCornerFrom(board, token, 1)

\* Computer.find_opposite_corner(board)
RECURSIVE OppositeCornerFrom(_, _, _)
OppositeCornerFrom(board, token, i) ==
    IF i > Len(diagonal_patterns) THEN 0 - 1
    ELSE LET p == diagonal_patterns[i]
         IN  IF Cell(board, p[1]) = token THEN p[3]
             ELSE IF Cell(board, p[3]) = token THEN p[1]
             ELSE OppositeCornerFrom(board, token, i + 1)

Computer_find_opposite_corner(board, token) ==
    OppositeCornerFrom(board, token, 1)

\* EasyComputer.move(board)
EasyComputer_move(board, token) == Choice(available(board))

\* A variant of MediumComputer.move that blocks before it wins
MediumComputer_move_block_first(board, token) ==
    LET winning_move  == Computer_find_winning_move(board, token)
        blocking_move == Computer_find_blocking_move(board, token)
    IN  IF blocking_move # 0 - 1 THEN Return(blocking_move)
        ELSE IF winning_move # 0 - 1 THEN Return(winning_move)
        ELSE IF Cell(board, 4) = "4" THEN Return(4)
        ELSE Choice(available(board))

\* MediumComputer.move(board)
MediumComputer_move(board, token) ==
    LET winning_move  == Computer_find_winning_move(board, token)
        blocking_move == Computer_find_blocking_move(board, token)
    IN  IF winning_move # 0 - 1 THEN Return(winning_move)
        ELSE IF blocking_move # 0 - 1 THEN Return(blocking_move)
        ELSE IF Cell(board, 4) = "4" THEN Return(4)
        ELSE Choice(available(board))

AssertionFailed == {[err |-> "AssertionError", ret |-> 0 - 1, list |-> <<>>]}

\* A variant of HardComputer._optimal_first_turn_strategy that draws its
\* move at turn 4 as it does later
HardComputer_first_turn_draws_at_4(board, token, turn) ==
    IF turn % 2 # 0 THEN AssertionFailed
    ELSE IF turn = 0 THEN Choice(available_corners(board))
    ELSE IF turn = 2
         THEN IF Cell(board, 4) # "4"
              THEN Return(Computer_find_opposite_corner(board, token))
              ELSE Return(Computer_find_adjacent_corner(board, token))
    ELSE Choice(available(board))

\* A variant of HardComputer._optimal_first_turn_strategy that opens on any
\* open space
HardComputer_first_turn_opens_anywhere(board, token, turn) ==
    IF turn % 2 # 0 THEN AssertionFailed
    ELSE IF turn = 0 THEN Choice(available(board))
    ELSE IF turn = 2
         THEN IF Cell(board, 4) # "4"
              THEN Return(Computer_find_opposite_corner(board, token))
              ELSE Return(Computer_find_adjacent_corner(board, token))
    ELSE IF turn = 4 THEN Return(4)
    ELSE Choice(available(board))

\* HardComputer._optimal_first_turn_strategy(board, turn)
HardComputer_optimal_first_turn_strategy(board, token, turn) ==
    IF turn % 2 # 0 THEN AssertionFailed
    ELSE IF turn = 0 THEN Choice(available_corners(board))
    ELSE IF turn = 2
         THEN IF Cell(board, 4) # "4"
              THEN Return(Computer_find_opposite_corner(board, token))
              ELSE Return(Computer_find_adjacent_corner(board, token))
    ELSE IF turn = 4 THEN Return(4)
    ELSE Choice(available(board))

\* A variant of HardComputer._optimal_response_strategy that answers a
\* taken center with any open space
HardComputer_optimal_response_turn1_anywhere(board, token, turn) ==
    IF turn % 2 = 0 THEN AssertionFailed
    ELSE IF turn = 1
         THEN IF Cell(board, 4) = "4" THEN Return(4)
              ELSE Choice(available(board))
    ELSE IF /\ turn = 3
            /\ KeyInList(board.moves[1].space, corners)
            /\ KeyInList(board.moves[3].space, corners)
         THEN Choice(available_middles(board))
    ELSE Choice(available(board))

\* A variant of HardComputer._optimal_response_strategy without the turn 3
\* rule for two corners
HardComputer_optimal_response_no_turn3(board, token, turn) ==
    IF turn % 2 = 0 THEN AssertionFailed
    ELSE IF turn = 1
         THEN IF Cell(board, 4) = "4" THEN Return(4)
              ELSE Choice(available_corners(board))
    ELSE Choice(available(board))

\* HardComputer._optimal_response_strategy(board, turn)
HardComputer_optimal_response_strategy(board, token, turn) ==
    IF turn % 2 = 0 THEN AssertionFailed
    ELSE IF turn = 1
         THEN IF Cell(board, 4) = "4" THEN Return(4)
              ELSE Choice(available_corners(board))
    ELSE IF /\ turn = 3
            /\ KeyInList(board.moves[1].space, corners)
            /\ KeyInList(board.moves[3].space, corners)
         THEN Choice(available_middles(board))
    ELSE Choice(available(board))

\* A variant of HardComputer.move that takes the opening branch on odd turns
HardComputer_move_odd_opens(board, token) ==
    LET winning_move  == Computer_find_winning_move(board, token)
        blocking_move == Computer_find_blocking_move(board, token)
        turn          == Len(board.moves)
    IN  IF winning_move # 0 - 1 THEN Return(winning_move)
        ELSE IF blocking_move # 0 - 1 THEN Return(blocking_move)
        ELSE IF turn % 2 # 0
             THEN HardComputer_optimal_first_turn_strategy(board, token, turn)
             ELSE HardComputer_optimal_response_strategy(board, token, turn)

\* A variant of HardComputer.move that blocks before it wins
HardComputer_move_block_first(board, token) ==
    LET winning_move  == Computer_find_winning_move(board, token)
        blocking_move == Computer_find_blocking_move(board, token)
        turn          == Len(board.moves)
    IN  IF blocking_move # 0 - 1 THEN Return(blocking_move)
        ELSE IF winning_move # 0 - 1 THEN Return(winning_move)
        ELSE IF turn % 2 = 0
             THEN HardComputer_optimal_first_turn_strategy(board, token, turn)
             ELSE HardComputer_optimal_response_strategy(board, token, turn)

\* HardComputer.move(board)
HardComputer_move(board, token) ==
    LET winning_move  == Computer_find_winning_move(board, token)
        blocking_move == Computer_find_blocking_move(board, token)
        turn          == Len(board.moves)
    IN  IF winning_move # 0 - 1 THEN Return(winning_move)
        ELSE IF blocking_move # 0 - 1 THEN Return(blocking_move)
        ELSE IF turn % 2 = 0
             THEN HardComputer_optimal_first_turn_strategy(board, token, turn)
             ELSE HardComputer_optimal_response_strategy(board, token, turn)

\* player.move(board), dispatched on the player's class
ComputerMove(kind, board, token) ==
    IF kind = "Computer"
    THEN {[err |-> "NotImplementedError", ret |-> 0 - 1, list |-> <<>>]}
    ELSE IF kind = "Easy" THEN EasyComputer_move(board, token)
    ELSE IF kind = "Medium" THEN MediumComputer_move(board, token)
    ELSE HardComputer_move(board, token)

\* player.token = token (the setter of Player.token), token a str given as
\* the sequence of its characters
Player_token_set(player, token) ==
    LET up == PyUpper(token)
    IN  IF ~PyStrIn(up, ascii_uppercase)
        THEN [err |-> "ImproperTokenError", player |-> player]
        ELSE [err |-> "none", player |-> [player EXCEPT !.token = Join(up)]]

----------------------------------------------------------------------------
(* The state                                                               *)

Board == [b |-> b, tokens |-> tokens, moves |-> moves]

NoKey == IntKey(0)

\* the record kept of the last call: who made it (0 for a direct call), the
\* key and token handed to the board, the exception raised ("none" if none),
\* the value a strategy returned, the value __getitem__ returned and the
\* board as it was before the call.
Call(op, who, key, token, err, ret, val, before) ==
    [op |-> op, who |-> who, key |-> key, token |-> token, err |-> err,
     ret |-> ret, val |-> val, before |-> before]

NoCall(board) == Call("none", 0, NoKey, "", "none", 0 - 1, "", board)

NoPlayer == [kind |-> "none", token |-> ""]

\* no Computer instance's generator is followed
NoPrng == <<>>

\* the tokens Game.__call__ gives the players before the token screen
DefaultTokens == <<"X", "O">>

----------------------------------------------------------------------------
(* The play loop: PlayScreen.play, move_player, get_human_move and         *)
(* show_computer_move (src/tictactoe/screens.py), run by Game.__call__     *)
(* (src/tictactoe/app.py), which catches PlayerQuitException only.         *)

Player(who) == IF who = 1 THEN player1 ELSE player2

Turn(who) == IF who = 1 THEN "p1" ELSE "p2"

\* the keys get_human_move accepts from get_key, other than "q"
HumanKeys == {StrKey(<<DigitChars[i]>>) : i \in 1..Len(DigitChars)}

\* A variant of PlayScreen.play that looks for the tie before the win
PlayAfterMove_tie_first(who, board) ==
    IF is_tie(board) THEN [pc |-> "done", result |-> "tie"]
    ELSE IF is_over(board)
    THEN [pc |-> "done", result |-> IF who = 1 THEN "p1 wins" ELSE "p2 wins"]
    ELSE [pc |-> IF who = 1 THEN "p2" ELSE "p1", result |-> "none"]

\* A variant of PlayScreen.play that goes on after a win until the board is
\* full
PlayAfterMove_plays_on(who, board) ==
    IF is_tie(board)
    THEN [pc |-> "done",
          result |-> IF ~is_over(board) THEN "tie"
                     ELSE IF who = 1 THEN "p1 wins" ELSE "p2 wins"]
    ELSE [pc |-> IF who = 1 THEN "p2" ELSE "p1", result |-> "none"]

\* A variant of PlayScreen.play that asks player 1 again after player 1
PlayAfterMove_same_player(who, board) ==
    IF is_over(board)
    THEN [pc |-> "done", result |-> IF who = 1 THEN "p1 wins" ELSE "p2 wins"]
    ELSE IF ~is_over(board) /\ ~is_tie(board)
    THEN [pc |-> "p1", result |-> "none"]
    ELSE [pc |-> "done", result |-> "tie"]

\* PlayScreen.play from the return of move_player(player) to the next
\* move_player call or to the report after the loop
PlayAfterMove(who, board) ==
    IF is_over(board)
    THEN [pc |-> "done", result |-> IF who = 1 THEN "p1 wins" ELSE "p2 wins"]
    ELSE IF who = 1
    THEN IF ~is_over(board) /\ ~is_tie(board)
         THEN [pc |-> "p2", result |-> "none"]
         ELSE [pc |-> "done", result |-> "tie"]
    ELSE IF ~is_over(board) /\ ~is_tie(board)
         THEN [pc |-> "p1", result |-> "none"]
         ELSE [pc |-> "done", result |-> "tie"]

\* PlayScreen.play up to its first move_player call
PlayStart(board) ==
    IF ~is_over(board) /\ ~is_tie(board)
    THEN [pc |-> "p1", result |-> "none"]
    ELSE [pc |-> "done", result |-> "tie"]

\* the exceptions get_human_move handles by prompting again
HumanRetries == {"SpotAlreadySelectedError", "SpotTakenByOpponentError"}

\* one pass of get_human_move's loop with a board key pressed
HumanKey(who, key) ==
    LET r == Board_setitem(Board, key, Player(who).token)
        n == IF r.err = "none" THEN PlayAfterMove(who, r.board)
             ELSE IF r.err \in HumanRetries THEN [pc |-> pc, result |-> result]
             ELSE [pc |-> "done", result |-> "error"]
    IN  /\ b' = r.board.b
        /\ moves' = r.board.moves
        /\ tokens' = r.board.tokens
        /\ pc' = n.pc
        /\ result' = n.result
        /\ last' = Call("human_move", who, key, Player(who).token, r.err,
                        0 - 1, "", Board)
        /\ UNCHANGED <<player1, player2, calls, prng, twister>>

\* get_human_move with "q" pressed: PlayerQuitException, caught by Game.__call__
HumanQuit(who) ==
    /\ pc' = "done"
    /\ result' = "quit"
    /\ last' = Call("human_move", who, StrKey(<<"q">>), Player(who).token,
                    "PlayerQuitException", 0 - 1, "", Board)
    /\ UNCHANGED <<b, tokens, moves, player1, player2, calls, prng, twister>>

HumanTurn(who) ==
    /\ pc = Turn(who)
    /\ Player(who).kind = "Human"
    /\ \/ \E key \in HumanKeys : HumanKey(who, key)
       \/ HumanQuit(who)

\* the classes for which isinstance(player, players.Computer) holds
Computers == {"Computer", "Easy", "Medium", "Hard"}

\* A variant of show_computer_move in which move() has placed the token it
\* returns before the driver places it
ComputerPlace_move_places(who, o) ==
    LET key == IntKey(o.ret)
        m   == IF o.err = "none"
               THEN Board_setitem(Board, key, Player(who).token)
               ELSE [err |-> o.err, board |-> Board]
        r   == IF m.err = "none"
               THEN Board_setitem(m.board, key, Player(who).token)
               ELSE m
        n   == IF r.err = "none" THEN PlayAfterMove(who, r.board)
               ELSE [pc |-> "done", result |-> "error"]
    IN  /\ b' = r.board.b
        /\ moves' = r.board.moves
        /\ tokens' = r.board.tokens
        /\ pc' = n.pc
        /\ result' = n.result
        /\ last' = Call("computer_move", who, key, Player(who).token, r.err,
                        o.ret, "", Board)
        /\ UNCHANGED <<player1, player2, calls, prng, twister>>

\* show_computer_move with one resolution o of computer_player.move(board)
ComputerPlace(who, o) ==
    LET key == IntKey(o.ret)
        r   == IF o.err = "none"
               THEN Board_setitem(Board, key, Player(who).token)
               ELSE [err |-> o.err, board |-> Board]
        n   == IF r.err = "none" THEN PlayAfterMove(who, r.board)
               ELSE [pc |-> "done", result |-> "error"]
    IN  /\ b' = r.board.b
        /\ moves' = r.board.moves
        /\ tokens' = r.board.tokens
        /\ pc' = n.pc
        /\ result' = n.result
        /\ last' = Call("computer_move", who, key, Player(who).token, r.err,
                        o.ret, "", Board)
        /\ UNCHANGED <<player1, player2, calls, prng, twister>>

ComputerTurn(who) ==
    /\ pc = Turn(who)
    /\ Player(who).kind \in Computers
    /\ \E o \in ComputerMove(Player(who).kind, Board, Player(who).token) :
          ComputerPlace(who, o)

\* the state when Game.__call__ has built the Board and the PlayScreen for a
\* pair of player classes and play() reaches its first move_player call
InitPlay(kinds, pairs) ==
    \E t \in pairs, k \in kinds :
        LET nb == NewBoard(t)
        IN  /\ b = nb.b
            /\ tokens = nb.tokens
            /\ moves = nb.moves
            /\ player1 = [kind |-> k[1], token |-> t[1]]
            /\ player2 = [kind |-> k[2], token |-> t[2]]
            /\ pc = PlayStart(nb).pc
            /\ result = PlayStart(nb).result
            /\ last = NoCall(nb)
            /\ calls = 0
            /\ prng = NoPrng
            /\ twister = {}

\* two Hard computers
InitHardHard == InitPlay({<<"Hard", "Hard">>}, {<<"X", "O">>, <<"O", "X">>})

NextHardHard == \E who \in {1, 2} : ComputerTurn(who)

SpecHardHard == InitHardHard /\ [][NextHardHard]_vars

\* a Hard computer against a human or against any legal move of a computer
Opponents == {"Human", "Easy", "Medium"}

InitHard ==
    InitPlay({<<"Hard", k>> : k \in Opponents} \cup {<<k, "Hard">> : k \in Opponents},
             {DefaultTokens})

NextHard ==
    \/ \E who \in {1, 2} : HumanTurn(who)
    \/ \E who \in {1, 2} : ComputerTurn(who)

SpecHard == InitHard /\ [][NextHard]_vars

----------------------------------------------------------------------------
(* Direct calls on a Board, as the tests make them: board[key] and         *)
(* board[key] = token on a new board, for int and str keys.                *)

\* the most direct calls made on the board under test
MaxCalls == 2

\* int keys: below -9, the negative indexes of both ends, 0..8, above 8
IntKeys == {IntKey(n) : n \in {0 - 10, 0 - 9, 0 - 1} \cup 0..9}

\* str keys: the keys of the move prompt "0".."9" and the quit key "q"
StrKeys == HumanKeys \cup {StrKey(<<"q">>)}

BoardKeys == IntKeys \cup StrKeys

\* token = board[key]
Get(key) ==
    LET r == Board_getitem(Board, key)
    IN  /\ pc = "idle"
        /\ calls < MaxCalls
        /\ calls' = calls + 1
        /\ last' = Call("get", 0, key, "", r.err, 0 - 1, r.val, Board)
        /\ UNCHANGED <<b, tokens, moves, player1, player2, pc, result, prng, twister>>

\* board[key] = token
Place(key, token) ==
    LET r == Board_setitem(Board, key, token)
    IN  /\ pc = "idle"
        /\ calls < MaxCalls
        /\ calls' = calls + 1
        /\ b' = r.board.b
        /\ moves' = r.board.moves
        /\ tokens' = r.board.tokens
        /\ last' = Call("place", 0, key, token, r.err, 0 - 1, "", Board)
        /\ UNCHANGED <<player1, player2, pc, result, prng, twister>>

InitBoard ==
    LET nb == NewBoard(DefaultTokens)
    IN  /\ b = nb.b
        /\ tokens = nb.tokens
        /\ moves = nb.moves
        /\ player1 = NoPlayer
        /\ player2 = NoPlayer
        /\ pc = "idle"
        /\ result = "none"
        /\ last = NoCall(nb)
        /\ calls = 0
        /\ prng = NoPrng
        /\ twister = {}

NextBoard ==
    \/ \E key \in BoardKeys : Get(key)
    \/ \E key \in BoardKeys, token \in TokenSet(Board) : Place(key, token)

SpecBoard == InitBoard /\ [][NextBoard]_vars

----------------------------------------------------------------------------
(* A strategy asked for one move on a board: the board is any filling of   *)
(* the nine cells with the two tokens, built as the tests build theirs, by *)
(* board[s] = token for the filled spaces s in ascending order.            *)

RECURSIVE PlaceAll(_, _, _)
PlaceAll(board, fill, s) ==
    IF s > 8 THEN board
    ELSE IF fill[s] = "" THEN PlaceAll(board, fill, s + 1)
    ELSE PlaceAll(Board_setitem(board, IntKey(s), fill[s]).board, fill, s + 1)

Fillings == [Spaces -> {""} \cup SeqToSet(DefaultTokens)]

\* computer.move(board) for an EasyComputer holding the token
AskEasy(token) ==
    /\ pc = "idle"
    /\ calls = 0
    /\ calls' = calls + 1
    /\ \E o \in EasyComputer_move(Board, token) :
          last' = Call("easy", 0, NoKey, token, o.err, o.ret, "", Board)
    /\ UNCHANGED <<b, tokens, moves, player1, player2, pc, result, prng, twister>>

\* computer.move(board) for a MediumComputer holding the token
AskMedium(token) ==
    /\ pc = "idle"
    /\ calls = 0
    /\ calls' = calls + 1
    /\ \E o \in MediumComputer_move(Board, token) :
          last' = Call("medium", 0, NoKey, token, o.err, o.ret, "", Board)
    /\ UNCHANGED <<b, tokens, moves, player1, player2, pc, result, prng, twister>>

InitQuery ==
    \E fill \in Fillings :
        LET nb == PlaceAll(NewBoard(DefaultTokens), fill, 0)
        IN  /\ b = nb.b
            /\ tokens = nb.tokens
            /\ moves = nb.moves
            /\ player1 = NoPlayer
            /\ player2 = NoPlayer
            /\ pc = "idle"
            /\ result = "none"
            /\ last = NoCall(nb)
            /\ calls = 0
            /\ prng = NoPrng
            /\ twister = {}

NextQuery ==
    \/ \E token \in TokenSet(Board) : AskEasy(token)
    \/ \E token \in TokenSet(Board) : AskMedium(token)

SpecQuery == InitQuery /\ [][NextQuery]_vars

\* computer.move(board) for a HardComputer holding the token
AskHard(token) ==
    /\ pc = "idle"
    /\ calls = 0
    /\ calls' = calls + 1
    /\ \E o \in HardComputer_move(Board, token) :
          last' = Call("hard", 0, NoKey, token, o.err, o.ret, "", Board)
    /\ UNCHANGED <<b, tokens, moves, player1, player2, pc, result, prng, twister>>

NextHardQuery == \E token \in TokenSet(Board) : AskHard(token)

SpecHardQuery == InitQuery /\ [][NextHardQuery]_vars

\* the turns given to a branch of the Hard strategy called on its own: the
\* number of moves on the board and the number before it
BranchTurns == {t \in {Len(moves) - 1, Len(moves)} : t >= 0}

\* computer._optimal_first_turn_strategy(board, turn)
AskFirstTurn(token, turn) ==
    /\ pc = "idle"
    /\ calls = 0
    /\ calls' = calls + 1
    /\ \E o \in HardComputer_optimal_first_turn_strategy(Board, token, turn) :
          last' = Call("_optimal_first_turn_strategy", 0, IntKey(turn), token,
                       o.err, o.ret, "", Board)
    /\ UNCHANGED <<b, tokens, moves, player1, player2, pc, result, prng, twister>>

\* computer._optimal_response_strategy(board, turn)
AskResponse(token, turn) ==
    /\ pc = "idle"
    /\ calls = 0
    /\ calls' = calls + 1
    /\ \E o \in HardComputer_optimal_response_strategy(Board, token, turn) :
          last' = Call("_optimal_response_strategy", 0, IntKey(turn), token,
                       o.err, o.ret, "", Board)
    /\ UNCHANGED <<b, tokens, moves, player1, player2, pc, result, prng, twister>>

NextBranch ==
    \/ \E token \in TokenSet(Board) : AskHard(token)
    \/ \E token \in TokenSet(Board), turn \in BranchTurns : AskFirstTurn(token, turn)
    \/ \E token \in TokenSet(Board), turn \in BranchTurns : AskResponse(token, turn)

SpecBranch == InitQuery /\ [][NextBranch]_vars

----------------------------------------------------------------------------
(* Seeded computers: Computer.__init__ makes each instance a generator of  *)
(* its own, random.Random(seed), and the strategies draw from it alone.    *)
(* A generator is the record [key, drawn]: how it was seeded and the       *)
(* lengths of the lists drawn from so far.  What a generator produces, the *)
(* index into a list of a given length, is a function of these; twister    *)
(* holds the values of this function met so far, as [key, drawn, n, i].    *)
(* Two computers of one class are shown the same boards in turn while a    *)
(* third instance, their opponent's, draws from its generator.             *)

\* the seed argument of Computer.__init__: None unless one is given
NoSeed == [given |-> FALSE, n |-> 0]

Seed(n) == [given |-> TRUE, n |-> n]

\* A variant of Computer.__init__ that does not hand the seed to the
\* generator
Random_unseeded(seed, id) == [key |-> <<"entropy", id>>, drawn |-> <<>>]

\* random.Random(seed), made for the instance id: without a seed the
\* generator is seeded from the system's entropy, its own each time
Random(seed, id) ==
    [key   |-> IF seed.given THEN <<"seed", seed.n>> ELSE <<"entropy", id>>,
     drawn |-> <<>>]

\* the place of an outcome's space in the list it was drawn from
IndexIn(o) == CHOOSE i \in 1..Len(o.list) : o.list[i] = o.ret

\* the outcomes of a strategy that the generator gen can produce
SeededOutcomes(gen, outcomes) ==
    {o \in outcomes :
        \/ o.list = <<>>
        \/ LET met == {t \in twister : /\ t.key = gen.key
                                       /\ t.drawn = gen.drawn
                                       /\ t.n = Len(o.list)}
           IN  met = {} \/ \E t \in met : t.i = IndexIn(o)}

\* the generator after the outcome o
AfterDraw(gen, o) ==
    IF o.list = <<>> THEN gen
    ELSE [gen EXCEPT !.drawn = Append(@, Len(o.list))]

\* what is known of the generators after gen produced the outcome o
Produced(gen, o) ==
    IF o.list = <<>> THEN twister
    ELSE twister \cup {[key |-> gen.key, drawn |-> gen.drawn,
                        n |-> Len(o.list), i |-> IndexIn(o)]}

\* the most boards shown to the two computers
MaxShown == 2

\* the boards shown: a board where each token can win, and a board with
\* two open cells and neither win nor block
ShownFillings ==
    {[s \in Spaces |-> IF s \in {0, 1, 7} THEN "X"
                       ELSE IF s \in {3, 4, 8} THEN "O" ELSE ""],
     [s \in Spaces |-> IF s \in {0, 1, 5, 6} THEN "X"
                       ELSE IF s \in {2, 3, 4} THEN "O" ELSE ""]}

\* how the computers are created: without a seed, or with the seed of the
\* tests
SeedsGiven == {NoSeed, Seed(100)}

\* the next board is put before the two computers
ShowBoard(fill) ==
    LET nb == PlaceAll(NewBoard(DefaultTokens), fill, 0)
    IN  /\ pc = "show"
        /\ calls < MaxShown
        /\ calls' = calls + 1
        /\ b' = nb.b
        /\ tokens' = nb.tokens
        /\ moves' = nb.moves
        /\ pc' = "c1"
        /\ UNCHANGED <<player1, player2, result, last, prng, twister>>

\* computer.move(board) for the instance id, drawing from its own generator
SeededMove(id) ==
    /\ pc = IF id = 1 THEN "c1" ELSE "c2"
    /\ \E o \in SeededOutcomes(prng[id],
                   ComputerMove(Player(id).kind, Board, Player(id).token)) :
          /\ prng' = [prng EXCEPT ![id] = AfterDraw(prng[id], o)]
          /\ twister' = Produced(prng[id], o)
          /\ result' = [result EXCEPT ![id] = Append(@, o.ret)]
          /\ last' = Call("seeded_move", id, NoKey, Player(id).token, o.err,
                          o.ret, "", Board)
    /\ pc' = IF id = 1 THEN "c2" ELSE "show"
    /\ UNCHANGED <<b, tokens, moves, player1, player2, calls>>

\* the opponent, an EasyComputer of its own, is asked for a move
OpponentMove ==
    /\ pc \in {"c1", "c2"}
    /\ Len(prng[3].drawn) < calls
    /\ \E o \in SeededOutcomes(prng[3], EasyComputer_move(Board, "O")) :
          /\ prng' = [prng EXCEPT ![3] = AfterDraw(prng[3], o)]
          /\ twister' = Produced(prng[3], o)
          /\ last' = Call("opponent_move", 3, NoKey, "O", o.err, o.ret, "",
                          Board)
    /\ UNCHANGED <<b, tokens, moves, player1, player2, pc, result, calls>>

\* two computers of one class, the first with the token X, and an
\* opponent's instance created with the seed of the tests
InitSeeded ==
    \E kind \in {"Easy", "Medium", "Hard"},
       token \in SeqToSet(DefaultTokens), seed1 \in SeedsGiven,
       seed \in SeedsGiven :
        LET nb == NewBoard(DefaultTokens)
        IN  /\ b = nb.b
            /\ tokens = nb.tokens
            /\ moves = nb.moves
            /\ player1 = [kind |-> kind, token |-> "X", seed |-> seed1]
            /\ player2 = [kind |-> kind, token |-> token, seed |-> seed]
            /\ pc = "show"
            /\ result = << <<>>, <<>> >>
            /\ last = NoCall(nb)
            /\ calls = 0
            /\ prng = <<Random(seed1, 1), Random(seed, 2),
                        Random(Seed(100), 3)>>
            /\ twister = {}

NextSeeded ==
    \/ \E fill \in ShownFillings : ShowBoard(fill)
    \/ \E id \in {1, 2} : SeededMove(id)
    \/ OpponentMove

SpecSeeded == InitSeeded /\ [][NextSeeded]_vars

----------------------------------------------------------------------------
(* Tokens given directly: player.token = token on two players, as the      *)
(* player tests do, and Board(tokens=[a, b]).                              *)

\* the strs tried as tokens: letters in both cases, a digit, a bracket, the
\* empty str and strs of two letters
TokenInputs ==
    {<<"x">>, <<"X">>, <<"o">>, <<"1">>, <<"[">>, <<>>,
     <<"a", "b">>, <<"b", "a">>, <<"X", "Y">>}

\* player.token = token
SetToken(who, token) ==
    LET r == Player_token_set(Player(who), token)
    IN  /\ pc = "idle"
        /\ calls < MaxCalls
        /\ calls' = calls + 1
        /\ player1' = IF who = 1 THEN r.player ELSE player1
        /\ player2' = IF who = 2 THEN r.player ELSE player2
        /\ last' = Call("set_token", who, StrKey(token), r.player.token,
                        r.err, 0 - 1, Player(who).token, Board)
        /\ UNCHANGED <<b, tokens, moves, pc, result, prng, twister>>

\* board = Board(tokens=[a, b])
Construct(a, c) ==
    LET nb == Board_init(<<Join(a), Join(c)>>)
    IN  /\ pc = "idle"
        /\ calls < MaxCalls
        /\ calls' = calls + 1
        /\ b' = nb.b
        /\ tokens' = nb.tokens
        /\ moves' = nb.moves
        /\ last' = Call("Board", 0, NoKey, "", "none", 0 - 1, "", Board)
        /\ UNCHANGED <<player1, player2, pc, result, prng, twister>>

\* two players as Game.__call__ first sets them up, and a default board
InitToken ==
    LET nb == Board_init(<<>>)
    IN  /\ b = nb.b
        /\ tokens = nb.tokens
        /\ moves = nb.moves
        /\ player1 = [kind |-> "Human", token |-> DefaultTokens[1]]
        /\ player2 = [kind |-> "Human", token |-> DefaultTokens[2]]
        /\ pc = "idle"
        /\ result = "none"
        /\ last = NoCall(nb)
        /\ calls = 0
        /\ prng = NoPrng
        /\ twister = {}

NextToken ==
    \/ \E who \in {1, 2}, token \in TokenInputs : SetToken(who, token)
    \/ \E a \in TokenInputs, c \in TokenInputs : Construct(a, c)

SpecToken == InitToken /\ [][NextToken]_vars

----------------------------------------------------------------------------
(* A game from the token screen on: Game.__call__ with the players of a    *)
(* game type, through the token, difficulty and order screens to the       *)
(* board and the play loop.                                                *)

Enter == <<"\n">>

\* get_key(keys=keys, default=default) with one key pressed: Enter gives
\* the default, a key of keys is returned, any other key is waited over
get_key(key, keys, default) ==
    IF key = Enter THEN [got |-> TRUE, key |-> default]
    ELSE IF key \in keys THEN [got |-> TRUE, key |-> key]
    ELSE [got |-> FALSE, key |-> key]

\* the keys pressed on the token screen, where any key is accepted
TokenKeys == {<<"x">>, <<"o">>, <<"1">>, Enter}

\* the screen after the token screen, and after each difficulty prompt
AfterTokens ==
    IF player1.kind \in Computers THEN "difficulty1"
    ELSE IF player2.kind \in Computers THEN "difficulty2"
    ELSE "order"

AfterDifficulty(who) ==
    IF who = 1 /\ player2.kind \in Computers THEN "difficulty2" ELSE "order"

\* A variant of update_player_token that compares the key as it was typed
update_player_token_as_typed(who, pressed) ==
    LET player   == Player(who)
        opponent == IF who = 2 THEN <<player1.token>> ELSE <<>>
        key      == get_key(pressed, TokenKeys, <<player.token>>).key
        r        == Player_token_set(player, key)
    IN  IF opponent # <<>> /\ key = opponent
        THEN [err |-> "duplicate", player |-> player, key |-> key]
        ELSE [err |-> r.err, player |-> r.player, key |-> key]

\* one pass of update_player_token's loop: opponent_token is None for
\* player 1 and player 1's token for player 2; the default is the player's
\* token, one character
update_player_token(who, pressed) ==
    LET player   == Player(who)
        opponent == IF who = 2 THEN <<player1.token>> ELSE <<>>
        key      == get_key(pressed, TokenKeys, <<player.token>>).key
        r        == Player_token_set(player, key)
    IN  IF opponent # <<>> /\ PyUpper(key) = opponent
        THEN [err |-> "duplicate", player |-> player, key |-> key]
        ELSE [err |-> r.err, player |-> r.player, key |-> key]

TokenKey(who, pressed) ==
    LET r == update_player_token(who, pressed)
    IN  /\ pc = (IF who = 1 THEN "token1" ELSE "token2")
        /\ player1' = IF who = 1 THEN r.player ELSE player1
        /\ player2' = IF who = 2 THEN r.player ELSE player2
        /\ pc' = IF r.err # "none" THEN pc
                 ELSE IF who = 1 THEN "token2" ELSE AfterTokens
        /\ last' = Call("update_player_token", who, StrKey(r.key),
                        r.player.token, r.err, 0 - 1, Player(who).token, Board)
        /\ UNCHANGED <<b, tokens, moves, result, calls, prng, twister>>

\* DifficultyScreen.difficulties
difficulties(key) ==
    IF key = <<"1">> THEN "Easy" ELSE IF key = <<"2">> THEN "Medium" ELSE "Hard"

DifficultyKeys == {<<"1">>, <<"2">>, <<"3">>}

\* get_difficulty(player): the player of the chosen class is bound to the
\* local name only, the screen's player1 and player2 stay as they were
get_difficulty(who, pressed) ==
    LET k == get_key(pressed, DifficultyKeys, <<"1">>)
    IN  [got |-> k.got, key |-> k.key, player |-> Player(who),
         difficulty |-> IF k.got THEN difficulties(k.key) ELSE ""]

DifficultyKey(who, pressed) ==
    LET r == get_difficulty(who, pressed)
    IN  /\ pc = (IF who = 1 THEN "difficulty1" ELSE "difficulty2")
        /\ r.got
        /\ player1' = IF who = 1 THEN r.player ELSE player1
        /\ player2' = IF who = 2 THEN r.player ELSE player2
        /\ pc' = AfterDifficulty(who)
        /\ last' = Call("get_difficulty", who, StrKey(r.key),
                        Player(who).token, "none", 0 - 1, r.difficulty, Board)
        /\ UNCHANGED <<b, tokens, moves, result, calls, prng, twister>>

OrderKeys == {<<"1">>, <<"2">>, <<"3">>, <<"q">>}

\* reorder_players with key pressed; flip is random.random() >= 0.5
reorder_players(key, flip) ==
    IF key = <<"2">> \/ (key = <<"3">> /\ flip)
    THEN <<player2, player1>>
    ELSE <<player1, player2>>

\* the order screen, and for a key other than q the Board of the two
\* tokens and PlayScreen.play up to its first move_player call
OrderKey(pressed, flip) ==
    LET k  == get_key(pressed, OrderKeys, <<"1">>)
        ps == reorder_players(k.key, flip)
        nb == Board_init(<<ps[1].token, ps[2].token>>)
    IN  /\ pc = "order"
        /\ k.got
        /\ IF k.key = <<"q">>
           THEN /\ pc' = "done"
                /\ result' = "quit"
                /\ last' = Call("reorder_players", 0, StrKey(k.key), "",
                                "PlayerQuitException", 0 - 1, "", Board)
                /\ UNCHANGED <<b, tokens, moves, player1, player2>>
           ELSE /\ player1' = ps[1]
                /\ player2' = ps[2]
                /\ b' = nb.b
                /\ tokens' = nb.tokens
                /\ moves' = nb.moves
                /\ pc' = PlayStart(nb).pc
                /\ result' = PlayStart(nb).result
                /\ last' = Call("reorder_players", 0, StrKey(k.key),
                                ps[1].token, "none", 0 - 1,
                                IF ps[1] = player1 THEN "kept" ELSE "swapped",
                                Board)
        /\ UNCHANGED <<calls, prng, twister>>

\* create_players_from_game_type for the three game types, and the two
\* HardComputers the game test puts in its place
GameTypes ==
    {<<"Human", "Computer">>, <<"Human", "Human">>, <<"Computer", "Computer">>,
     <<"Hard", "Hard">>}

\* Game.__call__ up to the token screen: the players with the tokens X and
\* O, and no board yet
InitSetup ==
    \E k \in GameTypes :
        /\ b = NewCells
        /\ tokens = <<>>
        /\ moves = <<>>
        /\ player1 = [kind |-> k[1], token |-> DefaultTokens[1]]
        /\ player2 = [kind |-> k[2], token |-> DefaultTokens[2]]
        /\ pc = "token1"
        /\ result = "none"
        /\ last = NoCall([b |-> NewCells, tokens |-> <<>>, moves |-> <<>>])
        /\ calls = 0
        /\ prng = NoPrng
        /\ twister = {}

\* the keys the humans of these games press at the move prompt: the spaces
\* of two winning patterns, the key 9 and the quit key
PlayKeys == {StrKey(<<c>>) : c \in {"0", "1", "2", "4", "8", "9"}}

SetupHumanTurn(who) ==
    /\ pc = Turn(who)
    /\ Player(who).kind = "Human"
    /\ \/ \E key \in PlayKeys : HumanKey(who, key)
       \/ HumanQuit(who)

NextSetup ==
    \/ \E who \in {1, 2}, key \in TokenKeys : TokenKey(who, key)
    \/ \E who \in {1, 2}, key \in DifficultyKeys \cup {Enter, <<"x">>} :
          DifficultyKey(who, key)
    \/ \E key \in OrderKeys \cup {Enter, <<"x">>}, flip \in BOOLEAN :
          OrderKey(key, flip)
    \/ \E who \in {1, 2} : SetupHumanTurn(who)
    \/ \E who \in {1, 2} : ComputerTurn(who)

SpecSetup == InitSetup /\ [][NextSetup]_vars

----------------------------------------------------------------------------
(* The Board's queries asked of a given board: any filling of the nine     *)
(* cells with the two tokens.                                              *)

\* Python's bool, as it prints
PyBool(x) == IF x THEN "True" ELSE "False"

\* one query of the board, with the value it returns
Ask(op, token, ret, val) ==
    /\ pc = "idle"
    /\ calls = 0
    /\ calls' = calls + 1
    /\ last' = Call(op, 0, NoKey, token, "none", ret, val, Board)
    /\ UNCHANGED <<b, tokens, moves, player1, player2, pc, result, prng, twister>>

\* board.is_over()
AskIsOver == Ask("is_over", "", 0 - 1, PyBool(is_over(Board)))

\* board.is_tie()
AskIsTie == Ask("is_tie", "", 0 - 1, PyBool(is_tie(Board)))

\* board.find_winning_pattern()
AskWinningPattern ==
    Ask("find_winning_pattern", "", 0 - 1, Board_find_winning_pattern(Board))

\* board.find_winning_move(token)
AskBoardWinningMove(token) ==
    Ask("Board.find_winning_move", token,
        Board_find_winning_move(Board, token), "")

\* board.find_blocking_move(token)
AskBoardBlockingMove(token) ==
    Ask("Board.find_blocking_move", token,
        Board_find_blocking_move(Board, token), "")

\* computer.find_winning_move(board) for a Computer holding the token
AskComputerWinningMove(token) ==
    Ask("Computer.find_winning_move", token,
        Computer_find_winning_move(Board, token), "")

\* computer.find_blocking_move(board) for a Computer holding the token
AskComputerBlockingMove(token) ==
    Ask("Computer.find_blocking_move", token,
        Computer_find_blocking_move(Board, token), "")

\* board.find_adjacent_corner(token)
AskBoardAdjacentCorner(token) ==
    Ask("Board.find_adjacent_corner", token,
        Board_find_adjacent_corner(Board, token), "")

\* board.find_opposite_corner(token)
AskBoardOppositeCorner(token) ==
    Ask("Board.find_opposite_corner", token,
        Board_find_opposite_corner(Board, token), "")

\* computer.find_adjacent_corner(board) for a Computer holding the token
AskComputerAdjacentCorner(token) ==
    Ask("Computer.find_adjacent_corner", token,
        Computer_find_adjacent_corner(Board, token), "")

\* computer.find_opposite_corner(board) for a Computer holding the token
AskComputerOppositeCorner(token) ==
    Ask("Computer.find_opposite_corner", token,
        Computer_find_opposite_corner(Board, token), "")

NextCorner ==
    \/ \E token \in TokenSet(Board) : AskBoardAdjacentCorner(token)
    \/ \E token \in TokenSet(Board) : AskBoardOppositeCorner(token)
    \/ \E token \in TokenSet(Board) : AskComputerAdjacentCorner(token)
    \/ \E token \in TokenSet(Board) : AskComputerOppositeCorner(token)

SpecCorner == InitQuery /\ [][NextCorner]_vars

NextState ==
    \/ AskIsOver
    \/ AskIsTie
    \/ AskWinningPattern
    \/ \E token \in TokenSet(Board) : AskBoardWinningMove(token)
    \/ \E token \in TokenSet(Board) : AskBoardBlockingMove(token)
    \/ \E token \in TokenSet(Board) : AskComputerWinningMove(token)
    \/ \E token \in TokenSet(Board) : AskComputerBlockingMove(token)

SpecState == InitQuery /\ [][NextState]_vars

----------------------------------------------------------------------------
(* Properties of the play loop                                             *)

\* the key is the int n or the decimal string of n
Denotes(key, n) == key = IntKey(n) \/ key = StrKey(<<PyStr(n)>>)

DenotesSpace(key) == \E s \in Spaces : Denotes(key, s)

SpaceOf(key) == CHOOSE s \in Spaces : Denotes(key, s)

\* some winning triple is filled with the token
Wins(board, token) ==
    \E i \in 1..Len(winning_patterns) :
        \A j \in 1..3 : board.b[winning_patterns[i][j]] = token

Occupied(board) == {s \in Spaces : board.b[s] \in TokenSet(board)}

\* the last call was a move asked of a Hard computer
HardMoved == last.op = "computer_move" /\ Player(last.who).kind = "Hard"

\* C1: a game between two Hard computers, player 1 moving first, never ends
\* in any other way than with all nine cells occupied, is_tie() true,
\* is_over() false and the tie reported; until then a move is always asked.
C1_HardVsHardTies ==
    /\ pc = "done" =>
          /\ result = "tie"
          /\ Occupied(Board) = Spaces
          /\ is_tie(Board)
          /\ ~is_over(Board)
    /\ pc # "done" => pc \in {"p1", "p2"} /\ result = "none"

C1_Witness ==
    pc = "done" /\ result = "tie" /\ Len(moves) = 9 /\ HardMoved

\* C2: with a Hard computer moving second against any opponent, no winning
\* triple is ever filled with the opponent's token.
C2_HardSecondNeverLoses ==
    (player2.kind = "Hard" /\ player1.kind # "Hard")
        => ~Wins(Board, player1.token)

\* C3: with a Hard computer moving first against any opponent, no winning
\* triple is ever filled with the opponent's token.
C3_HardFirstNeverLoses ==
    (player1.kind = "Hard" /\ player2.kind # "Hard")
        => ~Wins(Board, player2.token)

C3_Witness ==
    /\ player1.kind = "Hard"
    /\ player2.kind = "Human"
    /\ pc = "done"
    /\ result = "tie"
    /\ Len(moves) = 9

\* C4: every space HardComputer.move returns on a board that is neither won
\* nor full was unoccupied when it was asked, and the place call the driver
\* makes with it succeeds.
C4_HardMoveIsOpen ==
    (/\ HardMoved
     /\ ~is_over(last.before)
     /\ ~is_tie(last.before))
        => /\ last.ret \in OpenSpaces(last.before)
           /\ last.err = "none"

\* C6: no KeyNotOnBoard, SpotAlreadySelected or SpotTakenByOpponent error
\* escapes the play loop: the game is never ended by one of them.
C6_NoBoardErrorEscapes ==
    ~(/\ result = "error"
      /\ last.err \in {"KeyNotOnBoardError", "SpotAlreadySelectedError",
                       "SpotTakenByOpponentError"})

\* C13: when the move that fills the last open cell completes a winning
\* triple the game is reported as won by the player who made the move, and
\* a tie is reported only for a full board on which is_over() is false.
C13_FullBoardWinIsAWin ==
    /\ (/\ last.op \in {"human_move", "computer_move"}
        /\ last.err = "none"
        /\ Occupied(Board) = Spaces
        /\ is_over(Board))
          => /\ pc = "done"
             /\ result = IF last.who = 1 THEN "p1 wins" ELSE "p2 wins"
    /\ result = "tie" => Occupied(Board) = Spaces /\ ~is_over(Board)

C13_Witness ==
    /\ pc = "done"
    /\ result = "p1 wins"
    /\ last.who = 1
    /\ Len(moves) = 9
    /\ Occupied(Board) = Spaces
    /\ ~is_over(last.before)
    /\ Wins(Board, player1.token)

\* the space a recorded move was placed on is a corner
OnCorner(move) == \E c \in {0, 2, 6, 8} : Denotes(move.space, c)

\* C19: when the Hard computer moves second and is asked for the fourth
\* move of the game, and the opponent's two moves were both placed on
\* corners, it returns one of the middle edges 1, 3, 5, 7, whether the
\* opponent is a computer or a human.
C19_HardTurnThreeMiddle ==
    (/\ HardMoved
     /\ last.who = 2
     /\ Len(last.before.moves) = 3
     /\ OnCorner(last.before.moves[1])
     /\ OnCorner(last.before.moves[3]))
        => last.ret \in {1, 3, 5, 7}

----------------------------------------------------------------------------
(* Properties of the strategies on a given board                           *)

\* C5: on a board with an open cell EasyComputer.move and MediumComputer.move
\* return an unoccupied space, and EasyComputer.move can return each of them.
C5_EasyMediumMoveIsOpen ==
    /\ (last.op \in {"easy", "medium"} /\ OpenSpaces(last.before) # {})
          => last.err = "none" /\ last.ret \in OpenSpaces(last.before)
    /\ (calls = 0 /\ OpenSpaces(Board) # {})
          => \A token \in TokenSet(Board), s \in OpenSpaces(Board) :
                \E o \in EasyComputer_move(Board, token) :
                    o.err = "none" /\ o.ret = s

C5_Witness ==
    /\ last.op = "medium"
    /\ last.err = "none"
    /\ last.ret # 4
    /\ Cardinality(OpenSpaces(last.before)) > 1
    /\ Computer_find_winning_move(last.before, last.token) = 0 - 1
    /\ Computer_find_blocking_move(last.before, last.token) = 0 - 1

----------------------------------------------------------------------------
(* Properties of direct calls on a Board                                   *)

BoardErrors ==
    {"KeyNotOnBoardError", "SpotAlreadySelectedError", "SpotTakenByOpponentError"}

\* C7: get and place fail with KeyNotOnBoard, changing nothing, for every key
\* that does not denote an integer in 0..8, and get returns the cell's
\* content for every key that does.
C7_KeysOffBoardFail ==
    last.op \in {"get", "place"} =>
        IF DenotesSpace(last.key)
        THEN last.op = "get" =>
                last.err = "none" /\ last.val = last.before.b[SpaceOf(last.key)]
        ELSE last.err = "KeyNotOnBoardError" /\ Board = last.before

\* C8: place(s, t) for a space s in 0..8 fails with SpotAlreadySelected when
\* the cell holds t, with SpotTakenByOpponent when it holds the other token,
\* and otherwise succeeds and sets the cell to t.
C8_PlaceOutcome ==
    (last.op = "place" /\ DenotesSpace(last.key)) =>
        LET s    == SpaceOf(last.key)
            prev == last.before.b[s]
        IN  IF prev = last.token
            THEN last.err = "SpotAlreadySelectedError"
            ELSE IF prev \in TokenSet(last.before)
            THEN last.err = "SpotTakenByOpponentError"
            ELSE last.err = "none" /\ b[s] = last.token

C8_Witness ==
    /\ last.op = "place"
    /\ DenotesSpace(last.key)
    /\ last.err = "SpotTakenByOpponentError"

\* C9: a place call that fails leaves the nine cells, the move history and
\* the token set as they were before the call.
C9_FailedPlaceChangesNothing ==
    (last.op = "place" /\ last.err # "none") =>
        /\ last.err \in BoardErrors
        /\ b = last.before.b
        /\ moves = last.before.moves
        /\ tokens = last.before.tokens

C9_Witness ==
    /\ last.op = "place"
    /\ last.err = "SpotAlreadySelectedError"
    /\ Len(moves) = 1

\* C10: the length of moves is the number of occupied cells, an occupied cell
\* keeps its token, and each successful placement is appended to moves, whose
\* earlier entries never change.
C10_MovesTrackPlacements ==
    /\ [](Len(moves) = Cardinality(Occupied(Board)))
    /\ [][/\ \A s \in Spaces : b[s] \in TokenSet(Board) => b'[s] = b[s]
          /\ (last'.op = "place" /\ last'.err = "none" /\ calls' # calls)
                => moves' = Append(moves, [space |-> last'.key,
                                           token |-> last'.token])
          /\ ~(last'.op = "place" /\ last'.err = "none" /\ calls' # calls)
                => moves' = moves]_vars

C10_Witness ==
    /\ last.op = "place"
    /\ Len(moves) = 2
    /\ moves[1].token # moves[2].token

----------------------------------------------------------------------------
(* Properties of the Board's queries                                       *)

\* the token holds two cells of a winning triple whose third cell, s, is open
Completes(board, token, s) ==
    /\ s \in OpenSpaces(board)
    /\ \E i \in 1..Len(winning_patterns) :
          LET p == SeqToSet(winning_patterns[i])
          IN  s \in p /\ \A x \in p \ {s} : board.b[x] = token

OtherToken(board, token) == CHOOSE t \in TokenSet(board) : t # token

\* C11: is_over() returns true exactly when one of the eight winning triples
\* has its three cells holding the same token of the board.
C11_IsOverIffTriple ==
    last.op = "is_over" =>
        (last.val = "True" <=>
            \E t \in TokenSet(last.before) : Wins(last.before, t))

C11_Witness ==
    /\ last.op = "is_over"
    /\ last.val = "True"
    /\ \A s \in Spaces : b[s] = "X" <=> s \in {2, 4, 6}

\* the full board of the tie test: spaces 0, 2, 3, 7, 8 hold one token and
\* spaces 1, 4, 5, 6 the other
TieBoard(A, B) == [s \in Spaces |-> IF s \in {0, 2, 3, 7, 8} THEN A ELSE B]

\* C12: is_tie() returns true exactly when all nine cells hold a token of
\* the board, whatever is_over() says; on the board with 0, 2, 3, 7, 8 held
\* by one token and 1, 4, 5, 6 by the other is_tie() is true and is_over()
\* false.
C12_IsTieIffFull ==
    /\ last.op = "is_tie" =>
          (last.val = "True" <=> Occupied(last.before) = Spaces)
    /\ (\E A, B \in TokenSet(Board) : A # B /\ b = TieBoard(A, B)) =>
          is_tie(Board) /\ ~is_over(Board)

C12_Witness ==
    /\ last.op = "is_tie"
    /\ last.val = "True"
    /\ is_over(last.before)

\* C14: find_winning_move(t) returns -1 exactly when no winning triple has
\* two cells holding t and the third open, and otherwise returns an open
\* space that completes a triple with two cells holding t.
C14_FindWinningMove ==
    last.op \in {"Board.find_winning_move", "Computer.find_winning_move"} =>
        IF \E s \in Spaces : Completes(last.before, last.token, s)
        THEN Completes(last.before, last.token, last.ret)
        ELSE last.ret = 0 - 1

C14_Witness ==
    /\ last.op = "Board.find_winning_move"
    /\ last.ret # 0 - 1
    /\ Cardinality({s \in Spaces : Completes(last.before, last.token, s)}) > 1
    /\ \E s \in Spaces :
          /\ last.before.b[s] = OtherToken(last.before, last.token)
          /\ \E i \in 1..Len(winning_patterns) :
                LET p == SeqToSet(winning_patterns[i])
                IN  s \in p /\ \A x \in p \ {s} : last.before.b[x] = last.token

\* C15: find_blocking_move(t) returns the value find_winning_move returns
\* for the other token of the board.
C15_BlockIsOpponentsWin ==
    /\ last.op = "Board.find_blocking_move" =>
          last.ret = Board_find_winning_move(last.before,
                                             OtherToken(last.before, last.token))
    /\ last.op = "Computer.find_blocking_move" =>
          last.ret = Computer_find_winning_move(last.before,
                                                OtherToken(last.before, last.token))

C15_Witness ==
    /\ last.op = "Board.find_blocking_move"
    /\ last.ret # 0 - 1
    /\ Board_find_winning_move(last.before, last.token) \notin {0 - 1, last.ret}

----------------------------------------------------------------------------
(* Properties of the strategies' rules                                     *)

\* the open spaces that complete a winning triple for the token
WinningSpaces(board, token) == {s \in Spaces : Completes(board, token, s)}

\* C16: on a board with an open cell MediumComputer.move returns a winning
\* space for its token if there is one, else a space that blocks the other
\* token's win if there is one, else 4 if the center is open, else an open
\* space.
C16_MediumRulesInOrder ==
    (last.op = "medium" /\ OpenSpaces(last.before) # {}) =>
        LET own   == WinningSpaces(last.before, last.token)
            other == WinningSpaces(last.before,
                                   OtherToken(last.before, last.token))
        IN  /\ last.err = "none"
            /\ IF own # {} THEN last.ret \in own
               ELSE IF other # {} THEN last.ret \in other
               ELSE IF 4 \in OpenSpaces(last.before) THEN last.ret = 4
               ELSE last.ret \in OpenSpaces(last.before)

C16_Witness ==
    /\ last.op = "medium"
    /\ last.ret \in WinningSpaces(last.before, last.token)
    /\ WinningSpaces(last.before, OtherToken(last.before, last.token))
          \ WinningSpaces(last.before, last.token) # {}
    /\ 4 \in OpenSpaces(last.before)

\* C17: on any board HardComputer.move returns a space that completes a
\* triple of its own token if there is one, and placing the token there makes
\* is_over() true; else, if the other token has two cells of a triple with
\* the third open, it returns a space that completes a triple of the other
\* token.
C17_HardWinsThenBlocks ==
    last.op = "hard" =>
        LET own   == WinningSpaces(last.before, last.token)
            other == WinningSpaces(last.before,
                                   OtherToken(last.before, last.token))
        IN  IF own # {}
            THEN /\ last.err = "none"
                 /\ last.ret \in own
                 /\ LET r == Board_setitem(last.before, IntKey(last.ret),
                                           last.token)
                    IN  r.err = "none" /\ is_over(r.board)
            ELSE other # {} => last.err = "none" /\ last.ret \in other

C17_Witness ==
    /\ last.op = "hard"
    /\ ~is_over(last.before)
    /\ Len(last.before.moves) = 4
    /\ last.ret \in WinningSpaces(last.before, last.token)
    /\ WinningSpaces(last.before, OtherToken(last.before, last.token))
          \ WinningSpaces(last.before, last.token) # {}

\* C18: on the empty board HardComputer.move returns a corner, and each of
\* the corners 0, 2, 6, 8 is returned for some outcome of the draw.
C18_HardOpensOnACorner ==
    /\ (last.op = "hard" /\ Len(last.before.moves) = 0) =>
          last.err = "none" /\ last.ret \in {0, 2, 6, 8}
    /\ (calls = 0 /\ Len(moves) = 0) =>
          \A token \in TokenSet(Board), c \in {0, 2, 6, 8} :
              \E o \in HardComputer_move(Board, token) :
                  o.err = "none" /\ o.ret = c

C18_Witness ==
    /\ last.op = "hard"
    /\ Len(last.before.moves) = 0
    /\ last.ret = 8

----------------------------------------------------------------------------
(* Properties of seeded computers                                          *)

\* the spaces the two computers returned agree as far as both have moved
SameReturns ==
    \A i \in 1..Len(result[2]) : result[1][i] = result[2][i]

\* C20 as stated: two computers of the same class created with the same
\* seed and shown the same boards return the same spaces.
C20_SameSeedSameMoves ==
    (pc \in {"show", "c1", "c2"} /\ player1.seed = player2.seed)
        => SameReturns

\* C20, amended: two computers of the same class that hold the same token,
\* created with the same given seed and shown the same boards, return the
\* same spaces, whatever their opponent draws from its own generator.
C20_SameSeedSameTokenSameMoves ==
    (/\ pc \in {"show", "c1", "c2"}
     /\ player1.seed = player2.seed
     /\ player1.seed.given
     /\ player1.token = player2.token)
        => SameReturns

C20_Witness ==
    /\ pc = "show"
    /\ player1.seed = player2.seed
    /\ player1.token = player2.token
    /\ Len(result[2]) = 2
    /\ Len(prng[2].drawn) = 2
    /\ Len(prng[3].drawn) = 1
    /\ last.op = "seeded_move"

----------------------------------------------------------------------------
(* Properties of tokens                                                    *)

Letters == SeqToSet(ascii_uppercase)

\* the str t is one letter, in either case
OneLetter(t) == Len(t) = 1 /\ PyUpper(t)[1] \in Letters

\* the uppercase letter of a one-character str given as a string
Normal(t) ==
    IF \E k \in 1..Len(ascii_lowercase) : ascii_lowercase[k] = t
    THEN ascii_uppercase[CHOOSE k \in 1..Len(ascii_lowercase) :
                            ascii_lowercase[k] = t]
    ELSE t

\* C21: constructing a board with two tokens fails with ImproperToken when
\* one of them is not a letter, with DuplicateToken when both are the same
\* letter, and otherwise gives a board: no board has improper or equal
\* tokens.
C21_BoardRejectsBadTokens ==
    last.op = "Board" =>
        IF Normal(tokens[1]) \notin Letters \/ Normal(tokens[2]) \notin Letters
        THEN last.err = "ImproperTokenError"
        ELSE IF Normal(tokens[1]) = Normal(tokens[2])
        THEN last.err = "DuplicateTokenError"
        ELSE last.err = "none"

\* C22: player.token = t succeeds exactly when t is one letter, and the
\* token is then that letter in upper case; for any other t it fails with
\* ImproperToken and the player's token stays what it was.
C22_TokenIsOneLetter ==
    last.op = "set_token" =>
        IF OneLetter(last.key.s)
        THEN /\ last.err = "none"
             /\ Player(last.who).token = PyUpper(last.key.s)[1]
        ELSE /\ last.err = "ImproperTokenError"
             /\ Player(last.who).token = last.val

----------------------------------------------------------------------------
(* Properties of a game from the token screen on                           *)

\* the token screen is behind
TokensChosen == pc \notin {"token1", "token2"}

\* C23: once the token screen is left, and so when the board is created,
\* the two players hold different tokens; a key of player 2 that is player
\* 1's token in either case is refused as a duplicate and leaves player 2's
\* token as it was, also when player 1 took player 2's default token.
C23_TokensDistinct ==
    /\ TokensChosen => player1.token # player2.token
    /\ Len(tokens) = 2 => tokens[1] # tokens[2]
    /\ (/\ last.op = "update_player_token"
        /\ last.who = 2
        /\ PyUpper(last.key.s) = <<player1.token>>)
          => /\ last.err = "duplicate"
             /\ pc = "token2"
             /\ player2.token = last.val

\* player 1 took O, player 2's default, and player 2 accepting the default
\* was refused
C23_Witness ==
    /\ last.op = "update_player_token"
    /\ last.who = 2
    /\ last.err = "duplicate"
    /\ player1.token = "O"
    /\ last.key.s = <<"O">>
    /\ player2.token = "O"

\* the k-th placement carries the token of the player whose turn it was
Alternates ==
    \A k \in 1..Len(moves) :
        moves[k].token = (IF k % 2 = 1 THEN player1.token ELSE player2.token)

\* C26: the placements of a game alternate, the first by the player the
\* order screen put first (key 1 keeps player 1 first, key 2 puts player 2
\* first), and a refused attempt of a human leaves the turn and the moves
\* as they were.
C26_PlacementsAlternate ==
    /\ [](/\ Alternates
          /\ pc = "p1" => Len(moves) % 2 = 0
          /\ pc = "p2" => Len(moves) % 2 = 1)
    /\ [][(last'.op = "reorder_players" /\ last'.err = "none") =>
            /\ moves' = <<>>
            /\ last'.key.s = <<"1">> => (player1' = player1 /\ player2' = player2)
            /\ last'.key.s = <<"2">> => (player1' = player2 /\ player2' = player1)
            /\ tokens' = <<player1'.token, player2'.token>>]_vars
    /\ [][(last'.op = "human_move" /\ last'.err \in HumanRetries) =>
            (pc' = pc /\ moves' = moves /\ b' = b)]_vars

\* player 2 was put first, and after three placements a human was refused
C26_Witness ==
    /\ tokens = <<"O", "X">>
    /\ player1.token = "O"
    /\ Len(moves) = 3
    /\ last.op = "human_move"
    /\ last.err \in HumanRetries
    /\ pc = "p2"

\* C29: after get_difficulty the player has the class of the difficulty
\* chosen for it, and the play loop gets a move from every computer it asks.
C29_DifficultyIsUsed ==
    /\ last.op = "get_difficulty" => Player(last.who).kind = last.val
    /\ last.op = "computer_move" => last.err # "NotImplementedError"

----------------------------------------------------------------------------
(* Properties of the end of a game                                         *)

\* C27: a move is asked only while neither is_over() nor is_tie() holds; the
\* loop is left only with is_over(), with is_tie() or on the quit key; and no
\* game has more than nine placements.
C27_LoopExits ==
    /\ pc \in {"p1", "p2"} => (~is_over(Board) /\ ~is_tie(Board))
    /\ pc = "done" => (is_over(Board) \/ is_tie(Board) \/ result = "quit")
    /\ Len(moves) <= 9

\* C28: when a game ends with is_over() true, the winner reported is the
\* player of the last placement, and find_winning_pattern() is a winning
\* triple whose three cells hold that player's token.
C28_WinnerPlacedLast ==
    (pc = "done" /\ is_over(Board)) =>
        /\ result \in {"p1 wins", "p2 wins"}
        /\ LET winner == IF result = "p1 wins" THEN player1 ELSE player2
               p      == Board_find_winning_pattern(Board)
           IN  /\ moves[Len(moves)].token = winner.token
               /\ \E i \in 1..Len(winning_patterns) : winning_patterns[i] = p
               /\ \A j \in 1..3 : b[p[j]] = winner.token

\* the second player won a game
C28_Witness ==
    /\ pc = "done"
    /\ is_over(Board)
    /\ result = "p2 wins"
    /\ Board_find_winning_pattern(Board) # <<0 - 1, 0 - 1, 0 - 1>>

----------------------------------------------------------------------------
(* Properties of the pattern catalog                                       *)

\* the lines of the 3 x 3 grid numbered row by row from 0
Rows == {{3 * r, 3 * r + 1, 3 * r + 2} : r \in 0..2}

Columns == {{c, c + 3, c + 6} : c \in 0..2}

Diagonals == {{0, 4, 8}, {2, 4, 6}}

GridLines == Rows \cup Columns \cup Diagonals

\* the pairs of a triple, each with the space that remains
PairsOf(p) == {[key |-> SeqToSet(p) \ {p[j]}, val |-> p[j]] : j \in 1..3}

\* C24: partial_patterns has 24 entries, for each winning triple its three
\* pairs, each mapped to the space that remains; no pair is the key of two
\* entries; a space find_winning_move returns is the value of an entry
\* whose pair holds the token.
C24_PartialPatterns ==
    /\ Len(partial_patterns) = 24
    /\ SeqToSet(partial_patterns) =
          UNION {PairsOf(winning_patterns[i]) : i \in 1..Len(winning_patterns)}
    /\ \A n, m \in 1..Len(partial_patterns) :
          partial_patterns[n].key = partial_patterns[m].key => n = m
    /\ \A i, j \in 1..Len(winning_patterns) :
          i # j => Cardinality(SeqToSet(winning_patterns[i])
                                \cap SeqToSet(winning_patterns[j])) <= 1
    /\ (last.op = "Board.find_winning_move" /\ last.ret # 0 - 1) =>
          \E n \in 1..Len(partial_patterns) :
              /\ partial_patterns[n].val = last.ret
              /\ \A x \in partial_patterns[n].key : last.before.b[x] = last.token

\* find_winning_move returned 2 for the pair of the last triple, (2, 4, 6)
C24_Witness ==
    /\ last.op = "Board.find_winning_move"
    /\ last.ret = 2
    /\ last.before.b[4] = last.token
    /\ last.before.b[6] = last.token
    /\ last.before.b[0] # last.token
    /\ last.before.b[1] # last.token
    /\ last.before.b[5] # last.token
    /\ last.before.b[8] # last.token

\* the two ends of a line
Ends(line) == {MinOf(line), MaxOf(line)}

\* C25: winning_patterns is the eight lines of the grid; outer_patterns is
\* the winning triples without space 4, the four border lines;
\* diagonal_patterns is (0, 4, 8) and (2, 4, 6); the corner a Hard computer
\* finds at turn 2 is the far end of a diagonal, when the center is taken, or
\* of a border line, when it is open, whose other end holds its token.
C25_Catalog ==
    /\ Len(winning_patterns) = 8
    /\ {SeqToSet(winning_patterns[i]) : i \in 1..Len(winning_patterns)} = GridLines
    /\ Len(outer_patterns) = 4
    /\ SeqToSet(outer_patterns) =
          {p \in SeqToSet(winning_patterns) : 4 \notin SeqToSet(p)}
    /\ {SeqToSet(outer_patterns[i]) : i \in 1..Len(outer_patterns)} =
          {{0, 1, 2}, {6, 7, 8}, {0, 3, 6}, {2, 5, 8}}
    /\ Len(diagonal_patterns) = 2
    /\ SeqToSet(diagonal_patterns) = {<<0, 4, 8>>, <<2, 4, 6>>}
    /\ (/\ last.op = "hard"
        /\ Len(last.before.moves) = 2
        /\ last.err = "none"
        /\ last.ret # 0 - 1
        /\ WinningSpaces(last.before, last.token) = {}
        /\ WinningSpaces(last.before, OtherToken(last.before, last.token)) = {})
          => \E line \in (IF last.before.b[4] # "4" THEN Diagonals
                           ELSE GridLines \ (Diagonals \cup {{3, 4, 5}, {1, 4, 7}})) :
                 /\ last.ret \in Ends(line)
                 /\ \E x \in Ends(line) \ {last.ret} : last.before.b[x] = last.token

\* a Hard computer holding corner 0 answered the taken center with corner 8
C25_Witness ==
    /\ last.op = "hard"
    /\ Len(last.before.moves) = 2
    /\ last.before.b[0] = last.token
    /\ last.before.b[4] = OtherToken(last.before, last.token)
    /\ last.err = "none"
    /\ last.ret = 8

\* the corners of the board that are open
OpenCorners(board) == {c \in {0, 2, 6, 8} : board.b[c] \notin TokenSet(board)}

\* C30: with one move on the board HardComputer.move returns 4 when the
\* center is open, and when the opponent holds the center it returns an open
\* corner, each open corner for some outcome of the draw.
C30_HardAnswersFirstMove ==
    /\ (last.op = "hard" /\ Len(last.before.moves) = 1) =>
          /\ last.err = "none"
          /\ last.before.b[4] = "4" => last.ret = 4
          /\ last.before.b[4] = OtherToken(last.before, last.token) =>
                last.ret \in OpenCorners(last.before)
    /\ (calls = 0 /\ Len(moves) = 1) =>
          \A token \in TokenSet(Board) :
              b[4] = OtherToken(Board, token) =>
                  \A c \in OpenCorners(Board) :
                      \E o \in HardComputer_move(Board, token) :
                          o.err = "none" /\ o.ret = c

\* the opponent holds the center and the Hard computer took corner 6
C30_Witness ==
    /\ last.op = "hard"
    /\ Len(last.before.moves) = 1
    /\ last.before.b[4] = OtherToken(last.before, last.token)
    /\ last.ret = 6

----------------------------------------------------------------------------
(* Properties of the Hard strategy in play                                 *)

\* the border lines of the grid: the lines without the center
BorderLines == {line \in GridLines : 4 \notin line}

\* C31: at turn 2, the Hard computer holding one corner, its move is the
\* corner opposite its own when the opponent holds the center, and otherwise
\* an open corner on a border line with its own corner whose middle space is
\* open.
C31_HardSecondMove ==
    (/\ HardMoved
     /\ Len(last.before.moves) = 2
     /\ \E c \in {0, 2, 6, 8} : last.before.b[c] = last.token)
      => LET own == CHOOSE c \in {0, 2, 6, 8} : last.before.b[c] = last.token
         IN  IF last.before.b[4] = OtherToken(last.before, last.token)
             THEN last.ret = 8 - own
             ELSE /\ last.ret \in OpenCorners(last.before)
                  /\ \E line \in BorderLines :
                        /\ Ends(line) = {own, last.ret}
                        /\ \A m \in line \ Ends(line) :
                              last.before.b[m] \notin TokenSet(last.before)

\* C32: at a turn of 4 or more with neither a winning nor a blocking move,
\* the Hard computer's move is 4 if the center is open and otherwise an open
\* space.
C32_HardLateMove ==
    (/\ HardMoved
     /\ Len(last.before.moves) >= 4
     /\ WinningSpaces(last.before, last.token) = {}
     /\ WinningSpaces(last.before, OtherToken(last.before, last.token)) = {})
      => IF last.before.b[4] = "4"
         THEN last.ret = 4
         ELSE last.ret \in OpenSpaces(last.before)

\* at turn 4 the center was open and taken
C32_Witness ==
    /\ HardMoved
    /\ Len(last.before.moves) = 4
    /\ WinningSpaces(last.before, last.token) = {}
    /\ WinningSpaces(last.before, OtherToken(last.before, last.token)) = {}
    /\ last.before.b[4] = "4"
    /\ last.ret = 4
    /\ last.err = "none"

\* C33: HardComputer.move never fails on a parity assertion; the opening
\* branch called with an odd turn and the response branch called with an even
\* turn fail with an AssertionError and return no space, and with the right
\* parity neither assertion fails.
C33_ParityAssertions ==
    /\ last.op = "hard" => last.err # "AssertionError"
    /\ last.op = "_optimal_first_turn_strategy" =>
          /\ last.err = "AssertionError" <=> last.key.n % 2 = 1
          /\ last.err = "AssertionError" => last.ret = 0 - 1
    /\ last.op = "_optimal_response_strategy" =>
          /\ last.err = "AssertionError" <=> last.key.n % 2 = 0
          /\ last.err = "AssertionError" => last.ret = 0 - 1

\* the opening branch was called with turn 3 and failed
C33_Witness ==
    /\ last.op = "_optimal_first_turn_strategy"
    /\ last.key.n = 3
    /\ last.err = "AssertionError"
    /\ last.ret = 0 - 1

----------------------------------------------------------------------------
(* Properties of the order of the catalog                                  *)

\* the pairs in the order of the catalog, each <<a, b, c>> a pair {a, b} and
\* the space c that completes it: rows, columns, diagonals, and within a
\* triple (s1, s2, s3) the pairs {s1, s2}, {s1, s3}, {s2, s3}
CatalogOrder ==
    << <<0, 1, 2>>, <<0, 2, 1>>, <<1, 2, 0>>,
       <<3, 4, 5>>, <<3, 5, 4>>, <<4, 5, 3>>,
       <<6, 7, 8>>, <<6, 8, 7>>, <<7, 8, 6>>,
       <<0, 3, 6>>, <<0, 6, 3>>, <<3, 6, 0>>,
       <<1, 4, 7>>, <<1, 7, 4>>, <<4, 7, 1>>,
       <<2, 5, 8>>, <<2, 8, 5>>, <<5, 8, 2>>,
       <<0, 4, 8>>, <<0, 8, 4>>, <<4, 8, 0>>,
       <<2, 4, 6>>, <<2, 6, 4>>, <<4, 6, 2>> >>

\* the entries of CatalogOrder whose pair holds the token, the third open
Matches(board, token) ==
    {i \in 1..Len(CatalogOrder) :
        /\ board.b[CatalogOrder[i][1]] = token
        /\ board.b[CatalogOrder[i][2]] = token
        /\ board.b[CatalogOrder[i][3]] \notin TokenSet(board)}

\* C34: when a token has one or more winning completions, find_winning_move
\* returns the one whose pair comes first in the order of the catalog.
C34_FirstMatchInCatalogOrder ==
    (/\ last.op \in {"Board.find_winning_move", "Computer.find_winning_move"}
     /\ Matches(last.before, last.token) # {})
      => last.ret = CatalogOrder[MinOf(Matches(last.before, last.token))][3]

\* the token had two completions and the later one in the catalog was not
\* returned
C34_Witness ==
    /\ last.op = "Board.find_winning_move"
    /\ LET m == Matches(last.before, last.token)
       IN  /\ m # {}
           /\ CatalogOrder[MaxOf(m)][3] # CatalogOrder[MinOf(m)][3]
           /\ last.ret = CatalogOrder[MinOf(m)][3]

----------------------------------------------------------------------------
(* Properties of the lists of open spaces                                  *)

\* the list holds the spaces of the set, each once, in ascending order
Ascending(list, set) ==
    /\ SeqToSet(list) = set
    /\ \A i, j \in 1..Len(list) : i < j => list[i] < list[j]

\* the three lists of a board, as a record
Lists(board) ==
    [all     |-> available(board),
     corners |-> available_corners(board),
     middles |-> available_middles(board)]

\* the list without the space s
Without(list, s) == Filter(list, SeqToSet(list) \ {s})

\* C35: available() is the unoccupied spaces in ascending order,
\* available_corners() the unoccupied ones of 0, 2, 6, 8 and
\* available_middles() the unoccupied ones of 1, 3, 5, 7, in that order; a
\* successful place changes one cell and takes that space, and nothing else,
\* out of the three lists.
C35_ListsOfOpenSpaces ==
    /\ [](/\ Ascending(available(Board), Spaces \ Occupied(Board))
          /\ Ascending(available_corners(Board), {0, 2, 6, 8} \ Occupied(Board))
          /\ Ascending(available_middles(Board), {1, 3, 5, 7} \ Occupied(Board)))
    /\ [][moves' # moves =>
            \E s \in Spaces :
                /\ b[s] # b'[s]
                /\ \A x \in Spaces \ {s} : b[x] = b'[x]
                /\ Lists(Board)' =
                     [all     |-> Without(available(Board), s),
                      corners |-> Without(available_corners(Board), s),
                      middles |-> Without(available_middles(Board), s)]]_vars

\* a human took a corner as the fourth placement of a game
C35_Witness ==
    /\ last.op = "human_move"
    /\ last.err = "none"
    /\ Len(moves) = 4
    /\ Len(available(Board)) = 5
    /\ Len(available_corners(Board)) + 1 = Len(available_corners(last.before))

----------------------------------------------------------------------------
(* Properties of find_winning_pattern                                      *)

\* the triples of the catalog, by their place in it, filled with one token
FilledTriples(board) ==
    {i \in 1..Len(winning_patterns) :
        \E t \in TokenSet(board) :
            \A j \in 1..3 : board.b[winning_patterns[i][j]] = t}

\* C36: find_winning_pattern() returns (-1, -1, -1) exactly when is_over() is
\* false, and otherwise the first triple of winning_patterns whose three
\* cells hold the same token.
C36_WinningPatternIffOver ==
    last.op = "find_winning_pattern" =>
        /\ last.val = <<0 - 1, 0 - 1, 0 - 1>> <=> ~is_over(last.before)
        /\ is_over(last.before) =>
              /\ FilledTriples(last.before) # {}
              /\ last.val = winning_patterns[MinOf(FilledTriples(last.before))]

\* two triples were filled and the first of them was returned
C36_Witness ==
    /\ last.op = "find_winning_pattern"
    /\ Cardinality(FilledTriples(last.before)) >= 2
    /\ last.val = winning_patterns[MinOf(FilledTriples(last.before))]
    /\ last.val # winning_patterns[MaxOf(FilledTriples(last.before))]

----------------------------------------------------------------------------
(* Properties of the board during a turn                                   *)

\* the cells that differ between two boards
Changed(before, after) == {s \in Spaces : before.b[s] # after.b[s]}

\* C37: a computer's turn leaves the board as it was but for the driver's
\* one place of the space move() returned: when the place succeeds one cell
\* has changed, from open to the computer's token, one Move was appended and
\* the tokens are the same; when move() or the place fails the cells, the
\* moves and the tokens are what they were.
C37_MoveLeavesBoard ==
    [][last'.op = "computer_move" =>
         /\ last'.before = Board
         /\ tokens' = tokens
         /\ IF last'.err = "none"
            THEN /\ Cardinality(Changed(Board, Board')) = 1
                 /\ \A s \in Changed(Board, Board') :
                       /\ b[s] \notin TokenSet(Board)
                       /\ b'[s] = last'.token
                 /\ moves' = Append(moves, [space |-> IntKey(last'.ret),
                                            token |-> last'.token])
            ELSE b' = b /\ moves' = moves]_vars

\* a Medium computer moved and its token was placed
C37_Witness ==
    /\ last.op = "computer_move"
    /\ Player(last.who).kind = "Medium"
    /\ last.err = "none"
    /\ Changed(last.before, Board) = {last.ret}
    /\ Len(moves) = Len(last.before.moves) + 1

\* the cell a recorded space names, for a space recorded as an int or a str
CellOf(space) == ListIndex(PyInt(space).n).n

\* C38: every Move of moves records its space as the integer 0..8 of the
\* cell that took the token, so that the space is in corners, or in middles,
\* exactly when that cell is a corner, or a middle, of the board.
C38_MovesRecordIntSpaces ==
    \A k \in 1..Len(moves) :
        LET m == moves[k]
        IN  /\ m.space.t = "int"
            /\ m.space.n \in Spaces
            /\ b[m.space.n] = m.token
            /\ KeyInList(m.space, corners) <=> CellOf(m.space) \in {0, 2, 6, 8}
            /\ KeyInList(m.space, middles) <=> CellOf(m.space) \in {1, 3, 5, 7}

----------------------------------------------------------------------------
(* Properties of the corner queries                                        *)

AdjacentOps == {"Board.find_adjacent_corner", "Computer.find_adjacent_corner"}

OppositeOps == {"Board.find_opposite_corner", "Computer.find_opposite_corner"}

\* the middle spaces next to a corner: those of its two border lines
MiddlesNextTo(c) ==
    UNION {line \ Ends(line) : line \in {l \in BorderLines : c \in l}}

\* C39: a value other than -1 returned by find_adjacent_corner or
\* find_opposite_corner is a corner that is open; find_adjacent_corner
\* returns -1 when every middle next to each corner the token holds is
\* occupied.
C39_FoundCornerIsOpen ==
    /\ (last.op \in AdjacentOps \cup OppositeOps /\ last.ret # 0 - 1) =>
          /\ last.ret \in {0, 2, 6, 8}
          /\ last.before.b[last.ret] \notin TokenSet(last.before)
    /\ (/\ last.op \in AdjacentOps
        /\ \A c \in {0, 2, 6, 8} :
              last.before.b[c] = last.token =>
                  MiddlesNextTo(c) \subseteq Occupied(last.before))
          => last.ret = 0 - 1

----------------------------------------------------------------------------
(* Properties of the boards of a game                                      *)

\* the number of cells holding the token
Count(board, token) == Cardinality({s \in Spaces : board.b[s] = token})

\* C40: on every board of a game the first player's token fills as many
\* cells as the second player's or one more, and the two tokens do not both
\* fill a winning triple.
C40_BalancedBoard ==
    /\ Count(Board, player1.token) - Count(Board, player2.token) \in {0, 1}
    /\ ~(Wins(Board, player1.token) /\ Wins(Board, player2.token))

\* the second player won on a board with four cells of each token
C40_Witness ==
    /\ pc = "done"
    /\ result = "p2 wins"
    /\ Wins(Board, player2.token)
    /\ Count(Board, player1.token) = 4
    /\ Count(Board, player2.token) = 4

=============================================================================
